---- MODULE Spec2Model ----
(***************************************************************************)
(* Tracking of hardware clocks (hwclock.c): the HCL instance, its sample   *)
(* window, the combination of readings and the conversion of HW            *)
(* timestamps.                                                             *)
(*                                                                         *)
(* A struct timespec is an integer number of ticks.  A double is an exact  *)
(* rational <<n, d>> with d > 0 in lowest terms.  <<0, 0>> is a double    *)
(* that was never written, <<1, 0>> one whose value is out of use: a slot  *)
(* of x_data or y_data below the live window, or offset and frequency     *)
(* while valid_coefs is 0.  The program overwrites such a value before it  *)
(* reads it again, so the model does not tell one such value from another. *)
(***************************************************************************)
EXTENDS Integers, Sequences, FiniteSets, TLC

VARIABLES clock, last, ever

vars == <<clock, last, ever>>

(***************************************************************************)
(* Bounds of the model.                                                    *)
(***************************************************************************)
\* timestamps handed to the operations are 0..MaxTime
MaxTime == 2
\* largest trim index (best_start) the fitter reports
MaxBestStart == 2
\* largest capacity of a window on which the operations are run
MaxWindow == 3
\* most readings in a batch
MaxReadings == 2
\* most delays the quantile estimator is given
MaxDelays == 3

(***************************************************************************)
(* Program constants.                                                      *)
(***************************************************************************)
MIN_SAMPLES == 2
MAX_SAMPLES == 64
DELAY_QUANT_MIN_K == 1
DELAY_QUANT_MAX_K == 2
DELAY_QUANT_Q == 10

(***************************************************************************)
(* Double arithmetic.                                                      *)
(***************************************************************************)
RECURSIVE GCD(_, _)
GCD(a, b) == IF b = 0 THEN a ELSE GCD(b, a % b)

IAbs(i) == IF i < 0 THEN -i ELSE i

Uninit == <<0, 0>>
Stale == <<1, 0>>

Norm(n, d) ==
  LET s == IF d < 0 THEN -1 ELSE 1
      g == GCD(IAbs(n), IAbs(d))
  IN  IF d = 0 THEN Uninit ELSE <<(s * n) \div g, (s * d) \div g>>

R(i) == <<i, 1>>

RAdd(a, b) == Norm(a[1] * b[2] + b[1] * a[2], a[2] * b[2])
RSub(a, b) == Norm(a[1] * b[2] - b[1] * a[2], a[2] * b[2])
RMul(a, b) == Norm(a[1] * b[1], a[2] * b[2])
RDiv(a, b) == Norm(a[1] * b[2], a[2] * b[1])
RLt(a, b) == a[1] * b[2] < b[1] * a[2]
RLe(a, b) == a[1] * b[2] <= b[1] * a[2]
RGt(a, b) == RLt(b, a)
fabs(a) == <<IAbs(a[1]), a[2]>>
RMax(a, b) == IF RGt(a, b) THEN a ELSE b
RMin(a, b) == IF RLt(a, b) THEN a ELSE b

MAX_FREQ_OFFSET == <<2, 3>>

(***************************************************************************)
(* util.c: conversions between timespec and double.                        *)
(***************************************************************************)
UTI_DiffTimespecsToDouble(a, b) == R(a - b)

\* the double is cut to whole ticks (towards zero) when it becomes a timespec
DoubleToTicks(r) ==
  IF r[1] >= 0 THEN r[1] \div r[2] ELSE -((-r[1]) \div r[2])

UTI_AddDoubleToTimespec(start, increment) == start + DoubleToTicks(increment)

UTI_AdjustTimespec(old_ts, when, dfreq, doffset) ==
  LET elapsed == UTI_DiffTimespecsToDouble(when, old_ts)
      delta_time == RSub(RMul(elapsed, dfreq), doffset)
  IN  UTI_AddDoubleToTimespec(old_ts, delta_time)

CLAMP(lo, x, hi) ==
  LET m == IF x < hi THEN x ELSE hi
  IN  IF lo > m THEN lo ELSE m

MAXI(a, b) == IF a > b THEN a ELSE b
MINI(a, b) == IF a < b THEN a ELSE b

(***************************************************************************)
(* HCL_CreateInstance                                                      *)
(***************************************************************************)
\* max_samples not raised to min_samples
HCL_CreateInstance_NoRaise(min_arg, max_arg, min_separation, precision, garbage) ==
  LET min_samples == CLAMP(MIN_SAMPLES, min_arg, MAX_SAMPLES)
      max_samples == CLAMP(MIN_SAMPLES, max_arg, MAX_SAMPLES)
  IN  [hw_ref |-> garbage, local_ref |-> garbage,
       x_data |-> [i \in 0 .. max_samples - 1 |->
                     IF i = max_samples - 1 THEN R(0) ELSE Uninit],
       y_data |-> [i \in 0 .. max_samples - 1 |->
                     IF i = max_samples - 1 THEN R(0) ELSE Uninit],
       min_samples |-> min_samples,
       max_samples |-> max_samples,
       n_samples |-> 0,
       last_err |-> Uninit,
       min_separation |-> min_separation,
       precision |-> precision,
       valid_coefs |-> FALSE,
       offset |-> Uninit,
       frequency |-> Uninit,
       delay_quants |-> <<>>]

HCL_CreateInstance(min_arg, max_arg, min_separation, precision, garbage) ==
  LET min_samples == CLAMP(MIN_SAMPLES, min_arg, MAX_SAMPLES)
      max_samples == MAXI(min_samples,
                          CLAMP(MIN_SAMPLES, max_arg, MAX_SAMPLES))
  IN  [hw_ref |-> garbage, local_ref |-> garbage,
       x_data |-> [i \in 0 .. max_samples - 1 |->
                     IF i = max_samples - 1 THEN R(0) ELSE Uninit],
       y_data |-> [i \in 0 .. max_samples - 1 |->
                     IF i = max_samples - 1 THEN R(0) ELSE Uninit],
       min_samples |-> min_samples,
       max_samples |-> max_samples,
       n_samples |-> 0,
       last_err |-> Uninit,
       min_separation |-> min_separation,
       precision |-> precision,
       valid_coefs |-> FALSE,
       offset |-> Uninit,
       frequency |-> Uninit,
       delay_quants |-> <<>>]

(***************************************************************************)
(* Inputs of the operations.                                               *)
(***************************************************************************)
Times == 0 .. MaxTime
\* error bounds of accumulated samples
Errs == {R(1), R(2)}
\* 1 - LCL_ReadAbsoluteFrequency() / 1e6
LocalFreqs == {<<1, 2>>, R(1)}
\* intercepts and slopes reported by the fitter
Intercepts == {R(-2), R(1)}
Slopes == {<<1, 4>>, R(1)}
\* arguments of HCL_CreateInstance for the instances the operations run on
SmallArgs == 1 .. MaxWindow
MinSeparations == {R(2)}
Precisions == {R(1)}
\* what hw_ref and local_ref hold before the first sample
Garbage == {0, MaxTime}

(***************************************************************************)
(* regress.c: RGR_FindBestRobustRegression on n points.  The results it    *)
(* may report: no fit, or a fit with intercept b0, slope b1 and the index  *)
(* best_start of the first point of the best run.  One point is too few    *)
(* for a fit.                                                              *)
(***************************************************************************)
NoFit == [valid |-> FALSE, b0 |-> Uninit, b1 |-> Uninit, best_start |-> 0]

RGR_FindBestRobustRegression(x, y, n) ==
  IF n < 2 THEN {NoFit}
  ELSE {NoFit} \cup [valid : {TRUE}, b0 : Intercepts, b1 : Slopes,
                     best_start : 0 .. MaxBestStart]

(***************************************************************************)
(* HCL_AccumulateSample                                                    *)
(***************************************************************************)
\* an element of x_data or y_data; outside the array nothing is known
Elem(a, i) == IF i \in DOMAIN a THEN a[i] ELSE Uninit

\* room is made one sample too late
DropOldest_Late(c) ==
  IF c.n_samples > c.max_samples THEN c.n_samples - 1 ELSE c.n_samples

\* the live count after making room for the new sample
DropOldest(c) ==
  IF c.n_samples >= c.max_samples THEN c.n_samples - 1 ELSE c.n_samples

\* the local interval not looked at
IsDiscontinuity_HwOnly(c, hw_delta, local_delta) == RLe(hw_delta, R(0))

\* a HW time that did not move is let through
IsDiscontinuity_Strict(c, hw_delta, local_delta) ==
  \/ RLt(hw_delta, R(0))
  \/ RLt(local_delta, RDiv(c.min_separation, R(2)))

IsDiscontinuity(c, hw_delta, local_delta) ==
  \/ RLe(hw_delta, R(0))
  \/ RLt(local_delta, RDiv(c.min_separation, R(2)))

\* the old samples rebased where they are
ShiftLoop_InPlace(a, n, max_samples, delta) ==
  [j \in DOMAIN a |->
     IF j >= max_samples - n /\ j < max_samples
     THEN RSub(a[j], delta) ELSE a[j]]

\* the old samples moved down as they are
ShiftLoop_NoRebase(a, n, max_samples, delta) ==
  [j \in DOMAIN a |->
     IF j + 1 >= max_samples - n /\ j + 1 < max_samples
     THEN Elem(a, j + 1) ELSE a[j]]

\* for (i = max_samples - n; i < max_samples; i++) a[i - 1] = a[i] - delta
ShiftLoop(a, n, max_samples, delta) ==
  [j \in DOMAIN a |->
     IF j + 1 >= max_samples - n /\ j + 1 < max_samples
     THEN RSub(Elem(a, j + 1), delta) ELSE a[j]]

\* the indices the shift loop reads (i) and writes (i - 1)
ShiftIndices(n, max_samples) ==
  UNION {{i, i - 1} : i \in (max_samples - n) .. (max_samples - 1)}

\* the indices of the window handed to the fitter
WindowIndices(c) == (c.max_samples - c.n_samples) .. (c.max_samples - 1)

ShiftOldSamples(c, hw_ts, local_ts, local_freq) ==
  IF c.n_samples = 0
  THEN [n |-> 0, x |-> c.x_data, y |-> c.y_data, disc |-> FALSE, idx |-> {}]
  ELSE
    LET n1 == DropOldest(c)
        hw_delta == UTI_DiffTimespecsToDouble(hw_ts, c.hw_ref)
        local_delta ==
          RDiv(UTI_DiffTimespecsToDouble(local_ts, c.local_ref), local_freq)
        disc == IsDiscontinuity(c, hw_delta, local_delta)
        n2 == IF disc THEN 0 ELSE n1
    IN  [n |-> n2,
         x |-> ShiftLoop(c.x_data, n2, c.max_samples, local_delta),
         y |-> ShiftLoop(c.y_data, n2, c.max_samples, hw_delta),
         disc |-> disc,
         idx |-> ShiftIndices(n2, c.max_samples)]

\* the new sample is not counted
AppendSample_NoCount(c, hw_ts, local_ts, err, local_freq) ==
  LET s == ShiftOldSamples(c, hw_ts, local_ts, local_freq)
  IN  [c EXCEPT !.n_samples = s.n, !.x_data = s.x, !.y_data = s.y,
                !.hw_ref = hw_ts, !.local_ref = local_ts, !.last_err = err]

\* lines 259-281: the window and the references with the new sample in
AppendSample(c, hw_ts, local_ts, err, local_freq) ==
  LET s == ShiftOldSamples(c, hw_ts, local_ts, local_freq)
  IN  [c EXCEPT !.n_samples = s.n + 1, !.x_data = s.x, !.y_data = s.y,
                !.hw_ref = hw_ts, !.local_ref = local_ts, !.last_err = err]

\* all the samples before best_start dropped
DropUnneeded_All(c, best_start) ==
  IF c.n_samples > c.min_samples
  THEN [c EXCEPT !.n_samples = c.n_samples - MINI(best_start, c.n_samples)]
  ELSE c

\* if (n_samples > min_samples) n_samples -= MIN(best_start, n_samples - min_samples)
DropUnneeded(c, best_start) ==
  IF c.n_samples > c.min_samples
  THEN [c EXCEPT !.n_samples =
          c.n_samples - MINI(best_start, c.n_samples - c.min_samples)]
  ELSE c

\* the frequency not looked at
SanityCheck_OffsetOnly(c, err) ==
  IF RGt(fabs(c.offset), err)
  THEN [c EXCEPT !.n_samples = 0, !.valid_coefs = FALSE]
  ELSE c

\* the offset compared without its sign
SanityCheck_Signed(c, err) ==
  IF \/ RGt(c.offset, err)
     \/ RGt(fabs(RSub(c.frequency, R(1))), MAX_FREQ_OFFSET)
  THEN [c EXCEPT !.n_samples = 0, !.valid_coefs = FALSE]
  ELSE c

SanityCheck(c, err) ==
  IF \/ RGt(fabs(c.offset), err)
     \/ RGt(fabs(RSub(c.frequency, R(1))), MAX_FREQ_OFFSET)
  THEN [c EXCEPT !.n_samples = 0, !.valid_coefs = FALSE]
  ELSE c

\* lines 283-308: c already holds the new sample, fit is the fitter's answer
UseFit(c, err, local_freq, fit) ==
  IF ~fit.valid
  THEN [c EXCEPT !.valid_coefs = FALSE]
  ELSE LET c1 == [c EXCEPT !.valid_coefs = TRUE, !.offset = fit.b0,
                           !.frequency = RDiv(fit.b1, local_freq)]
       IN  SanityCheck(DropUnneeded(c1, fit.best_start), err)

\* the values the instance holds and no longer uses
OutOfUse(v) == IF v = Uninit THEN Uninit ELSE Stale

Forget(c) ==
  LET dead(i) == i < c.max_samples - c.n_samples /\ i < c.max_samples - 1
  IN  [c EXCEPT
         !.x_data = [i \in DOMAIN @ |-> IF dead(i) THEN OutOfUse(@[i]) ELSE @[i]],
         !.y_data = [i \in DOMAIN @ |-> IF dead(i) THEN OutOfUse(@[i]) ELSE @[i]],
         !.offset = IF c.valid_coefs THEN @ ELSE OutOfUse(@),
         !.frequency = IF c.valid_coefs THEN @ ELSE OutOfUse(@)]

\* each step is worked out once, on the result of the step before
HCL_AccumulateSample(c, hw_ts, local_ts, err, local_freq, fit) ==
  LET appended == {AppendSample(c, hw_ts, local_ts, err, local_freq)}
      fitted == {UseFit(a, err, local_freq, fit) : a \in appended}
  IN  CHOOSE r \in {Forget(u) : u \in fitted} : TRUE

(***************************************************************************)
(* HCL_CookTime                                                            *)
(***************************************************************************)
\* the elapsed HW time multiplied by the frequency
HCL_CookTime_Times(c, raw) ==
  IF ~c.valid_coefs
  THEN [ok |-> FALSE, cooked |-> 0, err |-> Uninit]
  ELSE LET elapsed == UTI_DiffTimespecsToDouble(raw, c.hw_ref)
           offset == RSub(RMul(elapsed, c.frequency), c.offset)
       IN  [ok |-> TRUE,
            cooked |-> UTI_AddDoubleToTimespec(c.local_ref, offset),
            err |-> c.last_err]

\* the offset of the fit added
HCL_CookTime_Plus(c, raw) ==
  IF ~c.valid_coefs
  THEN [ok |-> FALSE, cooked |-> 0, err |-> Uninit]
  ELSE LET elapsed == UTI_DiffTimespecsToDouble(raw, c.hw_ref)
           offset == RAdd(RDiv(elapsed, c.frequency), c.offset)
       IN  [ok |-> TRUE,
            cooked |-> UTI_AddDoubleToTimespec(c.local_ref, offset),
            err |-> c.last_err]

HCL_CookTime(c, raw) ==
  IF ~c.valid_coefs
  THEN [ok |-> FALSE, cooked |-> 0, err |-> Uninit]
  ELSE LET elapsed == UTI_DiffTimespecsToDouble(raw, c.hw_ref)
           offset == RSub(RDiv(elapsed, c.frequency), c.offset)
       IN  [ok |-> TRUE,
            cooked |-> UTI_AddDoubleToTimespec(c.local_ref, offset),
            err |-> c.last_err]

(***************************************************************************)
(* quantiles.c: the estimator of the quantiles of the reading delay, as    *)
(* order statistics of the delays accumulated so far, kept in order.       *)
(***************************************************************************)
QNT_Accumulate(q, value) ==
  LET k == Cardinality({i \in DOMAIN q : RLe(q[i], value)})
  IN  SubSeq(q, 1, k) \o <<value>> \o SubSeq(q, k + 1, Len(q))

\* the k-th of the DELAY_QUANT_Q-quantiles: the least accumulated value with at
\* least k/Q of the values at or below it
QNT_GetQuantile(q, k) ==
  LET AtOrBelow(v) == Cardinality({i \in DOMAIN q : RLe(q[i], v)})
      Enough == {i \in DOMAIN q : AtOrBelow(q[i]) * DELAY_QUANT_Q >= k * Len(q)}
  IN  IF q = <<>> THEN R(0)
      ELSE q[CHOOSE i \in Enough : \A j \in Enough : RLe(q[i], q[j])]

(***************************************************************************)
(* local.c: LCL_CookTime, the raw local time corrected by the current      *)
(* offset and rate of the local clock.                                     *)
(***************************************************************************)
LCL_CookTime(lcl, raw) == lcl.a * raw + lcl.b

(***************************************************************************)
(* HCL_ProcessReadings.  tss[i] = <<local before, HW, local after>>.       *)
(***************************************************************************)
ReadingFreq(tss, lcl) ==
  LET first == tss[1][1]
      end == tss[Len(tss)][3]
  IN  IF first < end
      THEN RDiv(UTI_DiffTimespecsToDouble(LCL_CookTime(lcl, first),
                                          LCL_CookTime(lcl, end)),
                UTI_DiffTimespecsToDouble(first, end))
      ELSE R(1)

RawDelay(tss, i) == UTI_DiffTimespecsToDouble(tss[i][3], tss[i][1])
Delay(tss, freq, i) == RMul(freq, RawDelay(tss, i))

\* the readings the first loop gets through: all, or those before the first
\* one with a negative delay
\* the delay of the first reading alone is looked at
BadReadings_First(tss, freq) ==
  {i \in {1} : RLt(Delay(tss, freq, i), R(0))}

BadReadings(tss, freq) == {i \in DOMAIN tss : RLt(Delay(tss, freq, i), R(0))}

FirstBad(tss, freq) ==
  CHOOSE i \in BadReadings(tss, freq) : \A j \in BadReadings(tss, freq) : i <= j

RECURSIVE AccumulateDelays(_, _, _, _)
AccumulateDelays(q, tss, freq, upto) ==
  IF upto = 0 THEN q
  ELSE QNT_Accumulate(AccumulateDelays(q, tss, freq, upto - 1),
                      Delay(tss, freq, upto))

\* if (i == 0 || min_delay > delay): the first reading of the least delay
MinReading(tss, freq) ==
  CHOOSE i \in DOMAIN tss :
    /\ \A j \in DOMAIN tss : RLe(Delay(tss, freq, i), Delay(tss, freq, j))
    /\ \A j \in 1 .. i - 1 : RLt(Delay(tss, freq, i), Delay(tss, freq, j))

RECURSIVE Sum(_, _)
Sum(f, S) ==
  IF S = {} THEN R(0)
  ELSE LET i == CHOOSE j \in S : TRUE IN RAdd(f[i], Sum(f, S \ {i}))

\* the interval of accepted delays
DelayBand(q, local_prec) ==
  LET low0 == QNT_GetQuantile(q, DELAY_QUANT_MIN_K)
      high0 == QNT_GetQuantile(q, DELAY_QUANT_MAX_K)
      low == RMin(low0, high0)
  IN  [low |-> low, high |-> RMax(high0, RAdd(low, local_prec))]

Combined(tss, freq, band) ==
  {i \in DOMAIN tss : ~(\/ RLt(Delay(tss, freq, i), band.low)
                        \/ RGt(Delay(tss, freq, i), band.high))}

\* the means taken over the whole batch
CombineReadings_Whole(c, tss, freq, acc) ==
  LET all == DOMAIN tss
      n == R(Cardinality(all))
      delay_sum == Sum([i \in all |-> Delay(tss, freq, i)], all)
      hw_sum == Sum([i \in all |->
                       UTI_DiffTimespecsToDouble(tss[i][2], tss[1][2])], all)
      local_sum == Sum([i \in all |->
                          RAdd(UTI_DiffTimespecsToDouble(tss[i][1], tss[1][1]),
                               RDiv(RawDelay(tss, i), R(2)))], all)
  IN  [ok |-> TRUE,
       hw_ts |-> UTI_AddDoubleToTimespec(tss[1][2], RDiv(hw_sum, n)),
       local_ts |-> UTI_AddDoubleToTimespec(tss[1][1], RDiv(local_sum, n)),
       err |-> RMax(RDiv(RDiv(delay_sum, n), R(2)), c.precision)]

\* lines 207-228: the readings in the band combined
CombineReadings(c, tss, freq, acc) ==
  LET n == R(Cardinality(acc))
      delay_sum == Sum([i \in acc |-> Delay(tss, freq, i)], acc)
      hw_sum == Sum([i \in acc |->
                       UTI_DiffTimespecsToDouble(tss[i][2], tss[1][2])], acc)
      local_sum == Sum([i \in acc |->
                          RAdd(UTI_DiffTimespecsToDouble(tss[i][1], tss[1][1]),
                               RDiv(RawDelay(tss, i), R(2)))], acc)
  IN  [ok |-> TRUE,
       hw_ts |-> UTI_AddDoubleToTimespec(tss[1][2], RDiv(hw_sum, n)),
       local_ts |-> UTI_AddDoubleToTimespec(tss[1][1], RDiv(local_sum, n)),
       err |-> RMax(RDiv(RDiv(delay_sum, n), R(2)), c.precision)]

\* nothing accepted without a fit
MinDelayReading_NeedsFit(c, tss, freq, lcl) ==
  LET min_reading == MinReading(tss, freq)
      min_delay == Delay(tss, freq, min_reading)
      hw_ts == tss[min_reading][2]
      local_ts == UTI_AddDoubleToTimespec(tss[min_reading][1],
                                          RDiv(RDiv(min_delay, freq), R(2)))
      err == RMax(RDiv(min_delay, R(2)), c.precision)
      ts1 == LCL_CookTime(lcl, local_ts)
      ck == HCL_CookTime(c, hw_ts)
  IN  [ok |-> /\ ck.ok
              /\ RGt(UTI_DiffTimespecsToDouble(ts1, ck.cooked), err),
       hw_ts |-> hw_ts, local_ts |-> local_ts, err |-> err]

\* lines 230-245: the reading with the minimum delay
MinDelayReading(c, tss, freq, lcl) ==
  LET min_reading == MinReading(tss, freq)
      min_delay == Delay(tss, freq, min_reading)
      hw_ts == tss[min_reading][2]
      local_ts == UTI_AddDoubleToTimespec(tss[min_reading][1],
                                          RDiv(RDiv(min_delay, freq), R(2)))
      err == RMax(RDiv(min_delay, R(2)), c.precision)
      ts1 == LCL_CookTime(lcl, local_ts)
      ck == HCL_CookTime(c, hw_ts)
  IN  [ok |-> \/ ~ck.ok
              \/ RGt(UTI_DiffTimespecsToDouble(ts1, ck.cooked), err),
       hw_ts |-> hw_ts, local_ts |-> local_ts, err |-> err]

\* a batch given up leaves the estimator as it was
HCL_ProcessReadings_Rollback(c, tss, lcl, local_prec) ==
  LET freq == ReadingFreq(tss, lcl)
  IN  IF Len(tss) < 1
      THEN [clock |-> c, ret |-> [ok |-> FALSE]]
      ELSE IF BadReadings(tss, freq) # {}
      THEN [clock |-> c, ret |-> [ok |-> FALSE]]
      ELSE LET q == AccumulateDelays(c.delay_quants, tss, freq, Len(tss))
               acc == Combined(tss, freq, DelayBand(q, local_prec))
           IN  [clock |-> [c EXCEPT !.delay_quants = q],
                ret |-> IF acc # {}
                        THEN CombineReadings(c, tss, freq, acc)
                        ELSE MinDelayReading(c, tss, freq, lcl)]

\* the band taken from the estimator as it was before the batch
HCL_ProcessReadings_Snapshot(c, tss, lcl, local_prec) ==
  LET freq == ReadingFreq(tss, lcl)
  IN  IF Len(tss) < 1
      THEN [clock |-> c, ret |-> [ok |-> FALSE]]
      ELSE IF BadReadings(tss, freq) # {}
      THEN [clock |-> [c EXCEPT !.delay_quants =
                         AccumulateDelays(@, tss, freq, FirstBad(tss, freq) - 1)],
            ret |-> [ok |-> FALSE]]
      ELSE LET q == AccumulateDelays(c.delay_quants, tss, freq, Len(tss))
               acc == Combined(tss, freq, DelayBand(c.delay_quants, local_prec))
           IN  [clock |-> [c EXCEPT !.delay_quants = q],
                ret |-> IF acc # {}
                        THEN CombineReadings(c, tss, freq, acc)
                        ELSE MinDelayReading(c, tss, freq, lcl)]

\* what the call returns (ret) and the instance it leaves (clock)
HCL_ProcessReadings(c, tss, lcl, local_prec) ==
  LET freq == ReadingFreq(tss, lcl)
  IN  IF Len(tss) < 1
      THEN [clock |-> c, ret |-> [ok |-> FALSE]]
      ELSE IF BadReadings(tss, freq) # {}
      THEN [clock |-> [c EXCEPT !.delay_quants =
                         AccumulateDelays(@, tss, freq, FirstBad(tss, freq) - 1)],
            ret |-> [ok |-> FALSE]]
      ELSE LET q == AccumulateDelays(c.delay_quants, tss, freq, Len(tss))
               acc == Combined(tss, freq, DelayBand(q, local_prec))
           IN  [clock |-> [c EXCEPT !.delay_quants = q],
                ret |-> IF acc # {}
                        THEN CombineReadings(c, tss, freq, acc)
                        ELSE MinDelayReading(c, tss, freq, lcl)]

(***************************************************************************)
(* HCL_NeedsNewSample                                                      *)
(***************************************************************************)
\* a sample exactly min_separation old is not yet replaced
HCL_NeedsNewSample_Later(c, now) ==
  \/ c.n_samples = 0
  \/ RLt(c.min_separation, fabs(UTI_DiffTimespecsToDouble(now, c.local_ref)))

HCL_NeedsNewSample(c, now) ==
  \/ c.n_samples = 0
  \/ RLe(c.min_separation, fabs(UTI_DiffTimespecsToDouble(now, c.local_ref)))

(***************************************************************************)
(* handle_slew                                                             *)
(***************************************************************************)
\* local_ref adjusted also when no sample is live
handle_slew_Always(c, cooked, dfreq, doffset) ==
  LET c1 == [c EXCEPT !.local_ref =
               UTI_AdjustTimespec(c.local_ref, cooked, dfreq, doffset)]
  IN  IF c1.valid_coefs
      THEN [c1 EXCEPT !.frequency = RDiv(c.frequency, RSub(R(1), dfreq))]
      ELSE c1

handle_slew(c, cooked, dfreq, doffset) ==
  LET c1 == IF c.n_samples # 0
            THEN [c EXCEPT !.local_ref =
                    UTI_AdjustTimespec(c.local_ref, cooked, dfreq, doffset)]
            ELSE c
  IN  IF c1.valid_coefs
      THEN [c1 EXCEPT !.frequency = RDiv(c.frequency, RSub(R(1), dfreq))]
      ELSE c1

(***************************************************************************)
(* Inputs of HCL_ProcessReadings and of handle_slew.                       *)
(***************************************************************************)
\* a reading starts at local time s, takes d and reads HW time 2 s
ReadingStarts == {0, 1}
RawDelays == {-1, 1, 3}
Readings == {<<st, 2 * st, st + d>> : st \in ReadingStarts, d \in RawDelays}
Batches == UNION {[1 .. k -> Readings] : k \in 1 .. MaxReadings}
\* a single reading started at 0 with a delay of 1
FewBatches == {<<r>> : r \in {rd \in Readings : rd[1] = 0 /\ rd[3] = 1}}
\* the local clock cooked: rate a, offset b
LclCooks == {[a |-> 1, b |-> 0], [a |-> 2, b |-> 0]}
\* LCL_GetSysPrecisionAsQuantum()
LocalPrecs == {R(1)}
\* frequency and offset changes of the local clock
DFreqs == {R(0), <<1, 2>>}
DOffsets == {R(0), R(1)}

(***************************************************************************)
(* The operations as actions.  last is the call just made: its arguments,  *)
(* what it returned and what it did on the way.  ever tells whether a      *)
(* sample was ever accumulated.                                            *)
(***************************************************************************)
Created(a, b, sep, prec, g) ==
  /\ clock = HCL_CreateInstance(a, b, sep, prec, g)
  /\ last = [op |-> "CreateInstance", min_samples |-> a, max_samples |-> b]
  /\ ever = FALSE

Init ==
  \E a \in SmallArgs, b \in SmallArgs, sep \in MinSeparations,
     prec \in Precisions, g \in Garbage : Created(a, b, sep, prec, g)

AccumulateSampleOf(HW, LT, ER, LF) ==
  \E hw_ts \in HW, local_ts \in LT, err \in ER, local_freq \in LF :
    \E s \in {ShiftOldSamples(clock, hw_ts, local_ts, local_freq)},
       c1 \in {AppendSample(clock, hw_ts, local_ts, err, local_freq)} :
        \E fit \in RGR_FindBestRobustRegression(c1.x_data, c1.y_data, c1.n_samples) :
          /\ clock' = HCL_AccumulateSample(clock, hw_ts, local_ts, err,
                                           local_freq, fit)
          /\ last' = [op |-> "AccumulateSample", hw_ts |-> hw_ts,
                      local_ts |-> local_ts, err |-> err,
                      local_freq |-> local_freq, fit |-> fit,
                      n_before |-> clock.n_samples, disc |-> s.disc,
                      idx |-> s.idx \cup WindowIndices(c1)]
          /\ ever' = TRUE

AccumulateSample == AccumulateSampleOf(Times, Times, Errs, LocalFreqs)

CookTime ==
  \E raw \in Times :
    /\ last' = [op |-> "CookTime", raw |-> raw, ret |-> HCL_CookTime(clock, raw)]
    /\ UNCHANGED <<clock, ever>>

NeedsNewSample ==
  \E now \in Times :
    /\ last' = [op |-> "NeedsNewSample", now |-> now,
                ret |-> HCL_NeedsNewSample(clock, now)]
    /\ UNCHANGED <<clock, ever>>

\* the notifications are kept to those that leave the state within the model
InRange(c) ==
  /\ c.local_ref \in Times
  /\ c.valid_coefs =>
       /\ RLe(<<1, 2>>, c.frequency)
       /\ RLe(c.frequency, R(2))

SlewOf(WHEN) ==
  \E cooked \in WHEN, dfreq \in DFreqs, doffset \in DOffsets :
    /\ InRange(handle_slew(clock, cooked, dfreq, doffset))
    /\ clock' = handle_slew(clock, cooked, dfreq, doffset)
    /\ last' = [op |-> "Slew", cooked |-> cooked, dfreq |-> dfreq,
                doffset |-> doffset]
    /\ UNCHANGED ever

Slew == SlewOf({MaxTime})

\* the estimator is given at most cap delays
ProcessReadingsOf(B, L, cap) ==
  \E tss \in B, lcl \in L, local_prec \in LocalPrecs :
    /\ Len(clock.delay_quants) + Len(tss) <= cap
    /\ \E r \in {HCL_ProcessReadings(clock, tss, lcl, local_prec)} :
         /\ clock' = r.clock
         /\ last' = [op |-> "ProcessReadings", tss |-> tss, lcl |-> lcl,
                     local_prec |-> local_prec, ret |-> r.ret,
                     quants_before |-> clock.delay_quants]
    /\ UNCHANGED ever

ProcessReadings == ProcessReadingsOf(FewBatches, {[a |-> 1, b |-> 0]}, 1)

Next ==
  \/ AccumulateSample
  \/ ProcessReadings
  \/ CookTime
  \/ NeedsNewSample
  \/ Slew

Spec == Init /\ [][Next]_vars

(***************************************************************************)
(* The combination of readings, on instances with few samples.             *)
(***************************************************************************)
FewTimes == {0, MaxTime}

InitReadings ==
  \E sep \in MinSeparations, prec \in Precisions :
    Created(MIN_SAMPLES, MIN_SAMPLES, sep, prec, 0)

AccumulateFew == AccumulateSampleOf(FewTimes, FewTimes, {R(2)}, LocalFreqs)

ProcessBatch == ProcessReadingsOf(Batches, LclCooks, MaxDelays)

NextReadings == AccumulateFew \/ ProcessBatch

SpecReadings == InitReadings /\ [][NextReadings]_vars

(***************************************************************************)
(* HCL_CreateInstance on arguments inside and outside [MIN_SAMPLES,        *)
(* MAX_SAMPLES]; the instances are queried only.                           *)
(***************************************************************************)
CreateArgs ==
  (-1 .. MIN_SAMPLES + 2) \cup (MAX_SAMPLES - 2 .. MAX_SAMPLES + 2) \cup {1000}

InitCreate ==
  \E a \in CreateArgs, b \in CreateArgs, sep \in MinSeparations,
     prec \in Precisions : Created(a, b, sep, prec, 0)

NextCreate == CookTime \/ NeedsNewSample

SpecCreate == InitCreate /\ [][NextCreate]_vars

(***************************************************************************)
(* Properties                                                              *)
(***************************************************************************)
Accumulated == last.op = "AccumulateSample"

\* the two checks of the fit, from the arguments of the call l
FitPassedIn(l) ==
  /\ l.fit.valid
  /\ RLe(fabs(l.fit.b0), l.err)
  /\ RLe(fabs(RSub(RDiv(l.fit.b1, l.local_freq), R(1))), <<2, 3>>)

FitPassed == FitPassedIn(last)

(***************************************************************************)
(* The instance fed with samples for ever.  The caller goes on calling     *)
(* HCL_AccumulateSample; of the samples it hands over, again and again one *)
(* is continuous with the window and gets a fit from the fitter that       *)
(* passes both checks.  The times of the model are finite: when they are   *)
(* used up the caller starts over at time 0, which the instance takes for  *)
(* a step of the HW clock.                                                 *)
(***************************************************************************)
\* a sample continuous with the live ones, fitted, the fit passing the checks
GoodSample ==
  /\ AccumulateFew
  /\ last'.n_before > 0
  /\ ~last'.disc
  /\ FitPassedIn(last')

\* the caller starts over at time 0
RestartSample ==
  /\ AccumulateFew
  /\ last'.hw_ts = 0
  /\ last'.local_ts = 0

SlewFew == SlewOf(FewTimes)

NextHeal == AccumulateFew \/ SlewFew

SpecHeal ==
  /\ InitReadings
  /\ [][NextHeal]_vars
  /\ SF_vars(GoodSample)
  /\ SF_vars(RestartSample)

\* C1: when the fit of an AccumulateSample succeeded and |offset| > err or
\* |frequency - 1| > 2/3, the call returns with valid_coefs = 0 and
\* n_samples = 0; valid_coefs is 1 on return only if the fit succeeded and
\* passed both checks.
C1_RejectedFitResets ==
  Accumulated =>
    /\ (last.fit.valid /\ ~FitPassed) =>
         (clock.n_samples = 0 /\ ~clock.valid_coefs)
    /\ clock.valid_coefs => FitPassed

C1_Witness ==
  /\ Accumulated
  /\ last.fit.valid
  /\ RGt(fabs(last.fit.b0), last.err)
  /\ last.n_before > 0
  /\ clock.n_samples = 0

\* the step is an AccumulateSample that meets a discontinuity: samples are
\* live and the new sample is not later in HW time or is less than
\* min_separation / 2 later in local time
DiscontinuityStep ==
  /\ last'.op = "AccumulateSample"
  /\ clock.n_samples > 0
  /\ \/ last'.hw_ts - clock.hw_ref <= 0
     \/ RLt(RDiv(R(last'.local_ts - clock.local_ref), last'.local_freq),
            RDiv(clock.min_separation, R(2)))

\* C2 as stated: a discontinuity leaves n_samples = 0 and valid_coefs = 0.
C2_AsStated ==
  [][DiscontinuityStep =>
       (clock'.n_samples = 0 /\ ~clock'.valid_coefs)]_vars

\* C2, amended: a discontinuity discards every sample that was live; the call
\* returns with the new sample alone in the window (n_samples = 1, at
\* offset (0, 0)) and valid_coefs = 0.
C2_DiscontinuityRestarts ==
  [][DiscontinuityStep =>
       /\ clock'.n_samples = 1
       /\ ~clock'.valid_coefs
       /\ clock'.x_data[clock'.max_samples - 1] = R(0)
       /\ clock'.y_data[clock'.max_samples - 1] = R(0)
       /\ clock'.hw_ref = last'.hw_ts
       /\ clock'.local_ref = last'.local_ts]_vars

C2_Witness ==
  /\ Accumulated
  /\ last.disc
  /\ last.n_before = clock.max_samples
  /\ clock.n_samples = 1

\* C3: 0 <= n_samples <= max_samples in every state, and the indices of
\* x_data and y_data that AccumulateSample reads or writes (the shift loop and
\* the window of the fitter) are within 0 .. max_samples - 1.
C3_WindowInBounds ==
  /\ 0 <= clock.n_samples
  /\ clock.n_samples <= clock.max_samples
  /\ Accumulated => last.idx \subseteq 0 .. clock.max_samples - 1

\* a sample accumulated into a full window, the oldest one evicted
C3_Witness ==
  /\ Accumulated
  /\ ~last.disc
  /\ last.n_before = clock.max_samples
  /\ clock.n_samples = clock.max_samples
  /\ last.idx = 0 .. clock.max_samples - 1

Cooked == last.op = "CookTime"

\* C4: CookTime fails exactly when valid_coefs is 0; otherwise it returns
\* local_ref + ((raw - hw_ref) / frequency - offset) and last_err.  It leaves
\* the instance as it was.
C4_CookTime ==
  [][last'.op = "CookTime" =>
       /\ clock' = clock
       /\ last'.ret.ok <=> clock.valid_coefs
       /\ last'.ret.ok =>
            /\ last'.ret.cooked =
                 clock.local_ref +
                 DoubleToTicks(RSub(RDiv(R(last'.raw - clock.hw_ref),
                                         clock.frequency), clock.offset))
            /\ last'.ret.err = clock.last_err]_vars

\* a HW time off the reference cooked with a frequency other than 1
C4_Witness ==
  /\ Cooked
  /\ last.ret.ok
  /\ last.raw # clock.hw_ref
  /\ clock.frequency # R(1)
  /\ clock.offset # R(0)

\* C5 as stated: with a valid fit, CookTime of hw_ref is local_ref.
C5_AsStated ==
  (Cooked /\ last.ret.ok /\ last.raw = clock.hw_ref) =>
    last.ret.cooked = clock.local_ref

\* C5, amended: with a valid fit, CookTime of hw_ref is local_ref less the
\* offset of the fit (in whole ticks), which is within last_err of local_ref
\* and is local_ref when the offset is below one tick.
C5_CookTimeAtReference ==
  (Cooked /\ last.ret.ok /\ last.raw = clock.hw_ref) =>
    /\ last.ret.cooked = clock.local_ref - DoubleToTicks(clock.offset)
    /\ RLe(R(IAbs(last.ret.cooked - clock.local_ref)), clock.last_err)
    /\ RLt(fabs(clock.offset), R(1)) => last.ret.cooked = clock.local_ref

C5_Witness ==
  /\ Cooked
  /\ last.ret.ok
  /\ last.raw = clock.hw_ref
  /\ last.ret.cooked # clock.local_ref

Queried == last.op = "NeedsNewSample"

NearReference ==
  RLt(fabs(R(last.now - clock.local_ref)), clock.min_separation)

\* C6 as stated: NeedsNewSample returns 1 if no sample was ever accumulated or
\* |now - local_ref| >= min_separation, and 0 otherwise.
C6_AsStated ==
  Queried => (last.ret <=> (~ever \/ ~NearReference))

\* C6, amended: NeedsNewSample changes nothing and returns 1 if no sample is
\* live (none was accumulated yet, or a reset discarded them all) or
\* |now - local_ref| >= min_separation, and 0 otherwise.
C6_NeedsNewSample ==
  [][last'.op = "NeedsNewSample" =>
       /\ clock' = clock
       /\ last'.ret <=>
            \/ clock.n_samples = 0
            \/ RLe(clock.min_separation, fabs(R(last'.now - clock.local_ref)))
       /\ ~ever => last'.ret]_vars

\* asked right after a reset, close to the sample that caused it
C6_Witness ==
  /\ Queried
  /\ ever
  /\ clock.n_samples = 0
  /\ NearReference
  /\ last.ret

Clamped(x) ==
  IF x < MIN_SAMPLES THEN MIN_SAMPLES ELSE IF x > MAX_SAMPLES THEN MAX_SAMPLES ELSE x

\* C7: HCL_CreateInstance stores min_samples clamped to [2, 64] and
\* max_samples clamped to [2, 64] and raised to min_samples, and starts with
\* n_samples = 0 and valid_coefs = 0.
C7_CreateClamps ==
  last.op = "CreateInstance" =>
    /\ clock.min_samples = Clamped(last.min_samples)
    /\ clock.max_samples =
         (IF Clamped(last.max_samples) < clock.min_samples
          THEN clock.min_samples ELSE Clamped(last.max_samples))
    /\ MIN_SAMPLES <= clock.min_samples
    /\ clock.min_samples <= clock.max_samples
    /\ clock.max_samples <= MAX_SAMPLES
    /\ clock.n_samples = 0
    /\ ~clock.valid_coefs

\* max_samples below min_samples, min_samples above MAX_SAMPLES
C7_Witness ==
  /\ last.op = "CreateInstance"
  /\ last.min_samples > MAX_SAMPLES
  /\ last.max_samples < last.min_samples
  /\ last.max_samples > MIN_SAMPLES
  /\ clock.max_samples = MAX_SAMPLES

Processed == last.op = "ProcessReadings"

\* freq * (poll_end - poll_start) of reading i of the batch just processed
BatchDelay(i) ==
  RMul(ReadingFreq(last.tss, last.lcl), R(last.tss[i][3] - last.tss[i][1]))

HasNegativeDelay == \E i \in DOMAIN last.tss : RLt(BatchDelay(i), R(0))

\* C8: a batch with a reading of negative delay makes ProcessReadings fail,
\* wherever the reading is in the batch and whatever the other delays are.
C8_NegativeDelayFails ==
  (Processed /\ HasNegativeDelay) => ~last.ret.ok

\* the negative delay is that of the second reading, the first is in order
C8_Witness ==
  /\ Processed
  /\ Len(last.tss) = 2
  /\ RLt(R(0), BatchDelay(1))
  /\ RLt(BatchDelay(2), R(0))
  /\ ~last.ret.ok

\* no reading of the batch just processed is in the band of accepted delays
\* (the band is that of the estimator after the batch)
NoneInBand ==
  /\ Processed
  /\ ~HasNegativeDelay
  /\ LET band == DelayBand(clock.delay_quants, last.local_prec)
     IN  \A i \in DOMAIN last.tss :
           RLt(BatchDelay(i), band.low) \/ RGt(BatchDelay(i), band.high)

\* the local time the model predicts for the HW time of the candidate, less
\* the (cooked) local time of the candidate
PredictionOff ==
  HCL_CookTime(clock, last.ret.hw_ts).cooked
    - LCL_CookTime(last.lcl, last.ret.local_ts)

\* C9 as stated: with no reading in the band, ProcessReadings succeeds exactly
\* when there is no valid fit or the prediction of the model is off the
\* candidate by more than err, in either direction.
C9_AsStated ==
  NoneInBand =>
    (last.ret.ok <=>
       (~clock.valid_coefs \/ RGt(R(IAbs(PredictionOff)), last.ret.err)))

\* C10 as stated: with no reading in the band and no valid fit,
\* ProcessReadings fails.
C10_AsStated ==
  (NoneInBand /\ ~clock.valid_coefs) => ~last.ret.ok

\* C10, amended: with no reading in the band and no valid fit,
\* ProcessReadings succeeds, with the HW time of a reading of minimum delay
\* and err = max(min_delay / 2, precision).
C10_FallbackWithoutFit ==
  (NoneInBand /\ ~clock.valid_coefs) =>
    /\ last.ret.ok
    /\ \E m \in DOMAIN last.tss :
         /\ \A j \in DOMAIN last.tss : RLe(BatchDelay(m), BatchDelay(j))
         /\ last.ret.hw_ts = last.tss[m][2]
         /\ last.ret.err = RMax(RDiv(BatchDelay(m), R(2)), clock.precision)

C10_Witness ==
  /\ NoneInBand
  /\ ~clock.valid_coefs
  /\ last.ret.ok
  /\ Len(last.tss) = 2

\* the readings of the batch just processed whose delay is in the band
InBand ==
  LET band == DelayBand(clock.delay_quants, last.local_prec)
  IN  {i \in DOMAIN last.tss :
         RLe(band.low, BatchDelay(i)) /\ RLe(BatchDelay(i), band.high)}

\* the mean of f[i] over the readings i in the band
MeanInBand(f) == RDiv(Sum(f, InBand), R(Cardinality(InBand)))

HwDelta(i) == R(last.tss[i][2] - last.tss[1][2])
LocalDelta(i) ==
  RAdd(R(last.tss[i][1] - last.tss[1][1]),
       RDiv(R(last.tss[i][3] - last.tss[i][1]), R(2)))

\* C11: a batch without a negative delay and with a reading in the band makes
\* ProcessReadings succeed with hw_ts = hw_0 + mean(hw_i - hw_0), local_ts =
\* local_0 + mean(local_i - local_0 + raw_delay_i / 2) and err =
\* max(mean(delay_i) / 2, precision), the means over the readings in the band;
\* every successful ProcessReadings returns err >= precision.
C11_CombinedReadings ==
  /\ (Processed /\ ~HasNegativeDelay /\ InBand # {}) =>
       /\ last.ret.ok
       /\ last.ret.hw_ts = last.tss[1][2] + DoubleToTicks(MeanInBand([i \in InBand |-> HwDelta(i)]))
       /\ last.ret.local_ts =
            last.tss[1][1] + DoubleToTicks(MeanInBand([i \in InBand |-> LocalDelta(i)]))
       /\ last.ret.err =
            RMax(RDiv(MeanInBand([i \in InBand |-> BatchDelay(i)]), R(2)), clock.precision)
  /\ (Processed /\ last.ret.ok) => RLe(clock.precision, last.ret.err)

\* one reading of two in the band, the other above it
C11_Witness ==
  /\ Processed
  /\ ~HasNegativeDelay
  /\ Len(last.tss) = 2
  /\ Cardinality(InBand) = 1
  /\ last.tss[1][2] # last.tss[2][2]
  /\ last.ret.ok

\* C12: the instance heals by itself.  From every state without a valid fit,
\* the state after a full reset (n_samples = 0, valid_coefs = 0) included,
\* calls of AccumulateSample alone lead to valid_coefs = 1 again, once samples
\* continuous with the window get a fit that passes the checks of the offset
\* and of the frequency.
C12_SelfHeals == (~clock.valid_coefs) ~> clock.valid_coefs

\* right after a full reset: the fit of a sample continuous with the window
\* was rejected for its frequency and the window is empty
C12_Witness ==
  /\ Accumulated
  /\ last.fit.valid
  /\ RLe(fabs(last.fit.b0), last.err)
  /\ ~FitPassed
  /\ last.n_before > 0
  /\ ~last.disc
  /\ clock.n_samples = 0
  /\ ~clock.valid_coefs

\* the live slots below the newest one, after the step
KeptSlots == {j \in WindowIndices(clock') : j < clock.max_samples - 1}

\* the slot a kept sample was in before the step: AccumulateSample moves the
\* samples down by one
SlotBefore(j) == IF last'.op = "AccumulateSample" THEN j + 1 ELSE j

\* C13 as stated: every step keeps each live (x, y) the offset of its sample
\* from the current local_ref and hw_ref: what it adds to a reference it takes
\* from the pairs.
C13_AsStated ==
  [][\A j \in KeptSlots :
       /\ RAdd(R(clock'.hw_ref), clock'.y_data[j]) =
            RAdd(R(clock.hw_ref), clock.y_data[SlotBefore(j)])
       /\ RAdd(R(clock'.local_ref), clock'.x_data[j]) =
            RAdd(R(clock.local_ref), clock.x_data[SlotBefore(j)])]_vars

\* C13, amended: AccumulateSample takes hw_ts - hw_ref from the y and
\* (local_ts - local_ref) / local_freq from the x of every sample it keeps and
\* stores the new sample as (0, 0), so each live y is the HW time of its
\* sample less hw_ref.  No other operation changes x, y or hw_ref: a slew
\* moves local_ref and leaves the pairs as they are.
C13_Rebase ==
  [][/\ last'.op = "AccumulateSample" =>
          /\ \A j \in KeptSlots :
               /\ clock'.y_data[j] =
                    RSub(clock.y_data[j + 1], R(last'.hw_ts - clock.hw_ref))
               /\ clock'.x_data[j] =
                    RSub(clock.x_data[j + 1],
                         RDiv(R(last'.local_ts - clock.local_ref),
                              last'.local_freq))
               /\ RAdd(R(clock'.hw_ref), clock'.y_data[j]) =
                    RAdd(R(clock.hw_ref), clock.y_data[j + 1])
          /\ clock'.n_samples > 0 =>
               /\ clock'.x_data[clock.max_samples - 1] = R(0)
               /\ clock'.y_data[clock.max_samples - 1] = R(0)
     /\ last'.op # "AccumulateSample" =>
          /\ clock'.x_data = clock.x_data
          /\ clock'.y_data = clock.y_data
          /\ clock'.hw_ref = clock.hw_ref]_vars

\* two older samples rebased by a sample taken at a local frequency of 1/2
C13_Witness ==
  /\ Accumulated
  /\ ~last.disc
  /\ last.local_freq # R(1)
  /\ clock.n_samples = 3
  /\ clock.x_data[0] # clock.y_data[0]

\* how often the delay v is in the estimator q, and in the batch
CountIn(q, v) == Cardinality({i \in DOMAIN q : q[i] = v})
CountInBatch(v) == Cardinality({i \in DOMAIN last.tss : BatchDelay(i) = v})

\* the readings of the batch in the band the estimator gave before the batch
InBandBefore ==
  LET band == DelayBand(last.quants_before, last.local_prec)
  IN  {i \in DOMAIN last.tss :
         RLe(band.low, BatchDelay(i)) /\ RLe(BatchDelay(i), band.high)}

\* C14: on a batch without a negative delay the estimator holds, when the
\* band is taken, the delay of every reading of the batch on top of what it
\* held before; the readings combined are those in the band of the estimator
\* with the batch in it, and the minimum-delay reading is turned to exactly
\* when that band holds no reading of the batch.
C14_BandAfterBatch ==
  (Processed /\ ~HasNegativeDelay) =>
    /\ Len(clock.delay_quants) = Len(last.quants_before) + Len(last.tss)
    /\ \A i \in DOMAIN clock.delay_quants :
         CountIn(clock.delay_quants, clock.delay_quants[i]) =
           CountIn(last.quants_before, clock.delay_quants[i])
             + CountInBatch(clock.delay_quants[i])
    /\ InBand # {} =>
         /\ last.ret.ok
         /\ last.ret.err =
              RMax(RDiv(MeanInBand([i \in InBand |-> BatchDelay(i)]), R(2)),
                   clock.precision)
    /\ InBand = {} =>
         \E m \in DOMAIN last.tss :
           /\ \A j \in DOMAIN last.tss : RLe(BatchDelay(m), BatchDelay(j))
           /\ last.ret.hw_ts = last.tss[m][2]

\* a batch that brings the estimator a new least delay: the band before the
\* batch and the band after it take different readings of the batch
C14_Witness ==
  /\ Processed
  /\ ~HasNegativeDelay
  /\ last.quants_before # <<>>
  /\ InBand # {}
  /\ InBandBefore # {}
  /\ InBand # InBandBefore
  /\ last.ret.ok

\* C15: a slew or step notification (dfreq, doffset) at the time cooked moves
\* local_ref by (cooked - local_ref) * dfreq - doffset if n_samples > 0 and
\* leaves it otherwise, divides frequency by 1 - dfreq if valid_coefs is 1 and
\* leaves it otherwise, and changes nothing else of the instance.
C15_Slew ==
  [][last'.op = "Slew" =>
       /\ clock'.local_ref =
            (IF clock.n_samples > 0
             THEN clock.local_ref +
                  DoubleToTicks(RSub(RMul(R(last'.cooked - clock.local_ref),
                                          last'.dfreq), last'.doffset))
             ELSE clock.local_ref)
       /\ clock'.frequency =
            (IF clock.valid_coefs
             THEN RDiv(clock.frequency, RSub(R(1), last'.dfreq))
             ELSE clock.frequency)
       /\ clock' = [clock EXCEPT !.local_ref = clock'.local_ref,
                                 !.frequency = clock'.frequency]]_vars

\* a notification that changed the rate and the offset of the local clock,
\* taken by an instance with a valid fit
C15_Witness ==
  /\ last.op = "Slew"
  /\ last.dfreq # R(0)
  /\ last.doffset # R(0)
  /\ clock.n_samples > 0
  /\ clock.valid_coefs
  /\ clock.frequency # R(1)

\* the live count of the step's AccumulateSample once the new sample is in,
\* before the fit
LiveWithNew ==
  IF clock.n_samples = 0 \/ last'.disc THEN 1
  ELSE IF clock.n_samples >= clock.max_samples THEN clock.n_samples
  ELSE clock.n_samples + 1

\* C16: after a fit that passed, with n samples live and the trim index t of
\* the fitter, n_samples is n - min(t, n - min_samples) if n > min_samples and
\* n otherwise: not below min_samples when n was above it, and at most t
\* less than n.  The samples kept are the newest ones.
C16_Trim ==
  [][(last'.op = "AccumulateSample" /\ FitPassedIn(last')) =>
       \A n \in {LiveWithNew}, t \in {last'.fit.best_start} :
         \A room \in {n - clock.min_samples} :
           /\ clock'.n_samples =
                (IF n > clock.min_samples
                 THEN n - (IF t < room THEN t ELSE room) ELSE n)
           /\ n > clock.min_samples => clock'.n_samples >= clock.min_samples
           /\ n - clock'.n_samples <= t
           /\ clock'.n_samples <= n
           /\ \A j \in KeptSlots :
                clock'.y_data[j] =
                  RSub(clock.y_data[j + 1], R(last'.hw_ts - clock.hw_ref))]_vars

\* a fit that would have two samples dropped of three: one is dropped
C16_Witness ==
  /\ Accumulated
  /\ FitPassed
  /\ last.fit.best_start = 2
  /\ last.n_before = 2
  /\ clock.max_samples = 3
  /\ clock.min_samples = 2
  /\ clock.n_samples = 2

\* the step is an AccumulateSample on a full window, without a discontinuity
FullWindowStep ==
  /\ last'.op = "AccumulateSample"
  /\ clock.n_samples = clock.max_samples
  /\ ~last'.disc

\* the instance of the step's AccumulateSample when the fitter is called
AtFit ==
  AppendSample(clock, last'.hw_ts, last'.local_ts, last'.err, last'.local_freq)

\* C17 as stated, the references: hw_ref, local_ref and last_err are those of
\* the newest sample in every state, so only AccumulateSample changes them.
C17_AsStated ==
  [][/\ last'.op = "AccumulateSample" =>
          /\ clock'.hw_ref = last'.hw_ts
          /\ clock'.local_ref = last'.local_ts
          /\ clock'.last_err = last'.err
     /\ last'.op # "AccumulateSample" =>
          /\ clock'.hw_ref = clock.hw_ref
          /\ clock'.local_ref = clock.local_ref
          /\ clock'.last_err = clock.last_err]_vars

\* C17, amended: the window is first in, first out.  AccumulateSample on a
\* full window without a discontinuity hands the fitter max_samples samples:
\* the max_samples - 1 newest of the old ones, each moved down one slot, and
\* the new one at the tail; the oldest is gone.  Every AccumulateSample
\* leaves the samples it keeps in the order they came in, the newest at the
\* tail as (0, 0), with hw_ref, local_ref and last_err those of the new
\* sample.  No other operation changes the window, hw_ref or last_err; a
\* slew notification moves local_ref off the local time of the newest sample.
C17_SlidingWindow ==
  [][/\ last'.op = "AccumulateSample" =>
          \A a \in {AtFit} :
            /\ FullWindowStep =>
                 /\ a.n_samples = clock.max_samples
                 /\ WindowIndices(a) = 0 .. clock.max_samples - 1
                 /\ \A j \in 0 .. clock.max_samples - 2 :
                      /\ a.y_data[j] =
                           RSub(clock.y_data[j + 1],
                                R(last'.hw_ts - clock.hw_ref))
                      /\ a.x_data[j] =
                           RSub(clock.x_data[j + 1],
                                RDiv(R(last'.local_ts - clock.local_ref),
                                     last'.local_freq))
                 /\ a.y_data[clock.max_samples - 1] = R(0)
                 /\ a.x_data[clock.max_samples - 1] = R(0)
                 /\ last'.idx = 0 .. clock.max_samples - 1
            /\ clock'.hw_ref = last'.hw_ts
            /\ clock'.local_ref = last'.local_ts
            /\ clock'.last_err = last'.err
            /\ clock'.n_samples <= a.n_samples
            /\ \A j \in WindowIndices(clock') :
                 /\ clock'.y_data[j] = a.y_data[j]
                 /\ clock'.x_data[j] = a.x_data[j]
                 /\ j < clock.max_samples - 1 =>
                      RLt(clock'.y_data[j], clock'.y_data[j + 1])
            /\ clock'.n_samples > 0 =>
                 /\ clock'.y_data[clock.max_samples - 1] = R(0)
                 /\ clock'.x_data[clock.max_samples - 1] = R(0)
     /\ last'.op # "AccumulateSample" =>
          /\ clock'.n_samples = clock.n_samples
          /\ clock'.x_data = clock.x_data
          /\ clock'.y_data = clock.y_data
          /\ clock'.hw_ref = clock.hw_ref
          /\ clock'.last_err = clock.last_err
          /\ (last'.op # "Slew" \/ clock.n_samples = 0) =>
               clock'.local_ref = clock.local_ref]_vars

\* a sample accumulated into a full window and fitted: the window is full
\* again, with the sample that was the newest below the new one
C17_Witness ==
  /\ Accumulated
  /\ ~last.disc
  /\ last.fit.valid
  /\ last.n_before = clock.max_samples
  /\ clock.n_samples = clock.max_samples
  /\ clock.valid_coefs
  /\ RLt(clock.y_data[clock.max_samples - 2], R(0))

\* the delay of reading i of the batch of the call l
DelayIn(l, i) ==
  RMul(ReadingFreq(l.tss, l.lcl), R(l.tss[i][3] - l.tss[i][1]))

\* the readings of the call l that the first loop gets through: those before
\* the first one with a negative delay
ReadBefore(l) ==
  {i \in DOMAIN l.tss : \A j \in 1 .. i : ~RLt(DelayIn(l, j), R(0))}

\* C18: ProcessReadings, failing or not, changes nothing of the instance but
\* the estimator of the delays: n_samples, hw_ref, local_ref, x_data, y_data,
\* last_err, valid_coefs, offset and frequency stay.  The estimator gets the
\* delays of the readings before the first one with a negative delay (all of
\* the batch if there is none) and keeps them when the batch is given up.
C18_OnlyEstimator ==
  [][last'.op = "ProcessReadings" =>
       /\ clock' = [clock EXCEPT !.delay_quants = clock'.delay_quants]
       /\ \A l \in {last'} : \A rd \in {ReadBefore(l)} :
            /\ Len(clock'.delay_quants) =
                 Len(clock.delay_quants) + Cardinality(rd)
            /\ \A k \in DOMAIN clock'.delay_quants :
                 \A v \in {clock'.delay_quants[k]} :
                   CountIn(clock'.delay_quants, v) =
                     CountIn(clock.delay_quants, v)
                       + Cardinality({i \in rd : DelayIn(l, i) = v})
            /\ rd # DOMAIN l.tss => ~l.ret.ok]_vars

\* a batch given up at its second reading by an instance with a valid fit:
\* the delay of the first reading is in the estimator
C18_Witness ==
  /\ Processed
  /\ Len(last.tss) = 2
  /\ ReadBefore(last) = {1}
  /\ ~last.ret.ok
  /\ Len(clock.delay_quants) = Len(last.quants_before) + 1
  /\ clock.valid_coefs

\* |frequency - 1| <= MAX_FREQ_OFFSET
FrequencySane == RLe(fabs(RSub(clock.frequency, R(1))), MAX_FREQ_OFFSET)

\* C19 as stated: in every state with valid_coefs = 1 the frequency is not 0
\* and |frequency - 1| <= 2/3.
C19_AsStated ==
  clock.valid_coefs =>
    /\ clock.frequency[2] # 0
    /\ clock.frequency[1] # 0
    /\ FrequencySane

\* C19, amended: in every state with valid_coefs = 1 the frequency is a
\* number above 0, so CookTime can divide by it; |frequency - 1| <= 2/3 holds
\* when AccumulateSample returns, and until a slew notification rescales the
\* frequency.
C19_FrequencyPositive ==
  clock.valid_coefs =>
    /\ clock.frequency[2] # 0
    /\ RGt(clock.frequency, R(0))
    /\ last.op = "AccumulateSample" => FrequencySane

\* a valid fit whose frequency a notification took out of the bound
C19_Witness ==
  /\ last.op = "Slew"
  /\ clock.valid_coefs
  /\ last.dfreq # R(0)
  /\ ~FrequencySane

\* C20: in every state the slots of the live window hold numbers that were
\* written (by HCL_CreateInstance or AccumulateSample), the pair at the tail
\* is (0, 0), and x and y grow strictly with the index: an older sample is
\* further below 0.
C20_WindowOrdered ==
  /\ clock.x_data[clock.max_samples - 1] = R(0)
  /\ clock.y_data[clock.max_samples - 1] = R(0)
  /\ \A j \in WindowIndices(clock) :
       /\ clock.x_data[j][2] # 0
       /\ clock.y_data[j][2] # 0
       /\ j < clock.max_samples - 1 =>
            /\ RLt(clock.x_data[j], clock.x_data[j + 1])
            /\ RLt(clock.y_data[j], clock.y_data[j + 1])

\* a window of three samples, taken at different local frequencies
C20_Witness ==
  /\ clock.n_samples = 3
  /\ clock.max_samples = 3
  /\ RLt(clock.y_data[0], clock.y_data[1])
  /\ RLt(clock.x_data[0], clock.y_data[0])
  /\ clock.x_data[1] = clock.y_data[1]

====
